---- MODULE Spec2Model ----
(***************************************************************************)
(* Feedback-driven retraining loop of the sarcasm-detection service:       *)
(*   src/api/app.py        the serving process (/predict, /feedback,       *)
(*                         /reload, /feedback_count)                       *)
(*   src/api/autotrain.py  the cron job (should_train, run_train,          *)
(*                         reload_api, prune_old_models, main)             *)
(*   src/train.py          the fine-tuning script (build_training_rows)    *)
(*                                                                         *)
(* Conventions.  A Python str is a sequence of characters, each character  *)
(* a one-token TLA+ string; "" is << >>.  Python None is the value None.   *)
(* A path is a tuple.  Wall-clock time is counted in hours since the       *)
(* epoch (1970-01-01T00:00:00 is hour 0).  A model score is counted in     *)
(* hundredths (0.45 is 45).  sha1 is taken to be collision free.           *)
(***************************************************************************)
EXTENDS Integers, Sequences, FiniteSets, TLC

\* ------------------------------------------------------------------ bounds
MaxSubmissions == 2      \* POST /feedback calls in SpecFeedback
MaxPredicts == 2         \* POST /predict calls served in SpecServe
MaxLines == 30           \* lines the feedback file grows to in Spec
MaxClock == 14           \* the last time stamp the filesystem hands out in Spec
MaxDirs == 7             \* checkpoint directories in SpecPrune
MaxCount == 36           \* feedback totals and last_count values in SpecShould
MaxHours == 26           \* last_time values in SpecShould
MaxRows == 2             \* feedback rows in SpecBuild
MaxTicks == 2            \* days that pass in SpecPromote

\* --------------------------------------------------------------- variables
VARIABLES
    fbFile,        \* app.py FEEDBACK_FILE / autotrain.py FEEDBACK: the JSON lines
    submitted,     \* history: the bodies of the POST /feedback calls, in order
    now,           \* datetime.utcnow(), in hours
    MODEL_PATH,    \* app.py global MODEL_PATH
    clf,           \* app.py global clf, the pipeline serving /predict
    inflight,      \* /reload calls inside build_pipeline: caller -> path being built
    req_count,     \* app.py global req_count
    served,        \* history: the pipeline the last /predict call ran
    reload_ok,     \* history, per caller: how its last POST /reload ended
    state_file,    \* autotrain.py STATE: the persisted run state, or NoFile
    models,        \* autotrain.py MODELS_DIR: directory path -> [mtime, complete]
    clock_s,       \* the filesystem's clock: the last time stamp handed out
    pc,            \* per scheduler invocation: where main() stands
    force,         \* per invocation: the environment sets AUTOTRAIN_FORCE=1
    total,         \* per invocation: main's local total
    state,         \* per invocation: main's local state
    out_dir,       \* per invocation: OUT_DIR of the train.py it launched
    base,          \* per invocation: the checkpoint its train.py fine-tunes from
    model_path,    \* per invocation: main's local model_path
    folders,       \* per invocation: prune_old_models' local folders
    todo,          \* per invocation: the part of folders[keep:] not yet visited
    fn_in,         \* the arguments of the function a function-level spec applies
    fn_out         \* and what it returned

fbVars == <<fbFile, submitted>>
srvCore == <<MODEL_PATH, clf, inflight, req_count, served>>
serverVars == <<srvCore, reload_ok>>
fsVars == <<state_file, models, clock_s>>
procVars ==
    <<pc, force, total, state, out_dir, base, model_path, folders, todo>>
fnVars == <<fn_in, fn_out>>
vars == <<fbVars, now, serverVars, fsVars, procVars, fnVars>>

\* ------------------------------------------------------------------ strings
None == <<"None">>
SPACE == " "
LABELS == {"SARCASM", "NOT_SARCASM"}

RECURSIVE lstrip(_)
lstrip(s) == IF s # << >> /\ Head(s) = SPACE THEN lstrip(Tail(s)) ELSE s

RECURSIVE rstrip(_)
rstrip(s) ==
    IF s # << >> /\ s[Len(s)] = SPACE THEN rstrip(SubSeq(s, 1, Len(s) - 1)) ELSE s

\* str.strip()
strip(s) == rstrip(lstrip(s))

\* hashlib.sha1(b).hexdigest(): equal digests exactly for equal byte strings
sha1(b) == <<"sha1", b>>

\* ------------------------------------------------------- app.py: /feedback
\* (fb.url or "")
url_or_empty(u) == IF u = None THEN << >> ELSE u

\* rid, app.py line 150
rid(fb) == sha1(url_or_empty(fb.url) \o <<"|", "|">> \o strip(fb.text))

\* record, app.py lines 151-159
record(fb, ts) ==
    [id |-> rid(fb), timestamp |-> ts, url |-> fb.url, text |-> strip(fb.text),
     predicted_label |-> fb.predicted_label, score |-> fb.score,
     user_label |-> fb.user_label]

\* seen, app.py lines 161-169: the ids of the lines already in the file
seen(file) == {file[i].id : i \in DOMAIN file}

\* POST /feedback, app.py lines 148-175
feedback(fb) ==
    fbFile' = IF rid(fb) \notin seen(fbFile)
              THEN Append(fbFile, record(fb, now))
              ELSE fbFile

\* GET /feedback_count, app.py lines 194-197: every line written is non-blank
feedback_count == Len(fbFile)

\* The request bodies SpecFeedback submits.  "u" + "||" + "||t" and
\* "u||" + "||" + "t" are the same string; " t" strips to "t".
URLS == {None, << >>, <<"u">>, <<"u", "|", "|">>}
TEXTS == {<<"t">>, <<SPACE, "t">>, <<"|", "|", "t">>}
FeedbackIn ==
    [url : URLS, text : TEXTS, predicted_label : LABELS, score : {90},
     user_label : LABELS]

\* --------------------------------------------------------- app.py: serving
HubModel == <<"evelinaivanova/sarcasm-extension-model">>
BadPath == <<"no-such-checkpoint">>

\* A pipeline object: build_pipeline returns it only when the tokenizer and
\* the weights are loaded (ready).  NoEngine stands for "no pipeline".
Engine(path) == [path |-> path, ready |-> TRUE]
NoEngine == [path |-> None, ready |-> FALSE]

\* from_pretrained can load a path: the hub id, or a checkpoint directory
\* whose save_pretrained has completed.
Loadable(path) ==
    \/ path = HubModel
    \/ path \in DOMAIN models /\ models[path].complete

\* build_pipeline, app.py lines 24-27: the pipeline, or "raise" (a path that
\* cannot be loaded always raises; a loadable one may still fail to load).
build_pipeline(path) ==
    IF Loadable(path) THEN {Engine(path), NoEngine} ELSE {NoEngine}

\* `if req.model_path:` is false for None and for ""
truthy(s) == s # None /\ s # << >>

\* POST /reload, app.py lines 179-182 up to the call of build_pipeline: the
\* global MODEL_PATH is assigned before the pipeline is built.
reload_target(req_path) == IF truthy(req_path) THEN req_path ELSE MODEL_PATH

reload_begin(caller, req_path) ==
    /\ inflight[caller] = None
    /\ MODEL_PATH' = reload_target(req_path)
    /\ inflight' = [inflight EXCEPT ![caller] = reload_target(req_path)]
    /\ reload_ok' = [reload_ok EXCEPT ![caller] = "none"]
    /\ UNCHANGED <<clf, req_count, served>>

\* the assignment to clf done whatever build_pipeline gave
clf_after_always(built) == built

\* clf after build_pipeline returned `built`, app.py line 182: the assignment
\* happens only when the call returns; when it raises, clf keeps its value.
clf_after(built) == IF built = NoEngine THEN clf ELSE built

\* POST /reload, app.py lines 182-183: build_pipeline returns, and the
\* handler answers 200, or it raises, and FastAPI answers 500.
reload_end(caller, built) ==
    /\ inflight[caller] # None
    /\ built \in build_pipeline(inflight[caller])
    /\ clf' = clf_after(built)
    /\ inflight' = [inflight EXCEPT ![caller] = None]
    /\ reload_ok' = [reload_ok EXCEPT ![caller] =
                        IF built # NoEngine THEN "ok" ELSE "failed"]
    /\ UNCHANGED <<MODEL_PATH, req_count, served>>

\* POST /predict, app.py lines 94-146: runs the pipeline the global clf names
\* at line 100 and counts the request (the latency and prediction logs grow
\* with req_count).
predict ==
    /\ req_count < MaxPredicts
    /\ served' = clf
    /\ req_count' = req_count + 1
    /\ UNCHANGED <<MODEL_PATH, clf, inflight, reload_ok>>

\* ------------------------------------------------------ autotrain.py state
Procs == {"cronA", "cronB"}
Clients == {"client1", "client2"}
Callers == Procs \cup Clients

NoFile == [missing |-> TRUE]

\* ---- policy knobs, autotrain.py lines 18-27 (f: AUTOTRAIN_FORCE=1 is set)
MIN_TOTAL(f) == IF f THEN 1 ELSE 30
MIN_NEW(f) == IF f THEN 0 ELSE 10
COOLDOWN(f) == IF f THEN 0 ELSE 24
KEEP_LAST == 5

\* read_count, autotrain.py lines 29-33: the non-empty lines of the file
\* (every line /feedback writes is a JSON object, so none is empty)
read_count(file) == Len(file)

\* load_state, autotrain.py lines 35-41
load_state ==
    IF state_file = NoFile
    THEN [last_count |-> 0, last_time |-> 0, last_model |-> << >>]
    ELSE state_file

\* dict.get(k, dflt)
get(d, k, dflt) == IF k \in DOMAIN d THEN d[k] ELSE dflt

\* should_train with the second test requiring only one of the two shortfalls
should_train_either(tot, st, t, f) ==
    LET last_count == get(st, "last_count", 0)
        last_time == get(st, "last_time", 0)
    IN  IF tot < MIN_TOTAL(f) THEN FALSE
        ELSE IF tot - last_count < MIN_NEW(f) \/ t - last_time < COOLDOWN(f)
             THEN FALSE
        ELSE TRUE

\* should_train, autotrain.py lines 47-61; t is datetime.utcnow()
should_train(tot, st, t, f) ==
    LET last_count == get(st, "last_count", 0)
        last_time == get(st, "last_time", 0)
        new_since == tot - last_count
        time_since == t - last_time
    IN  IF tot < MIN_TOTAL(f) THEN FALSE
        ELSE IF new_since < MIN_NEW(f) /\ time_since < COOLDOWN(f) THEN FALSE
        ELSE TRUE

\* ---- checkpoint directories
\* train.py line 37: the checkpoint from_pretrained loads at lines 151-152
CURRENT_MODEL == HubModel

NoModels == [d \in {} |-> 0]
Dir(n) == <<"models", n>>

\* the directory `d` written at time stamp `t`
put_dir(ms, d, t, done) ==
    [x \in DOMAIN ms \cup {d} |->
        IF x = d THEN [mtime |-> t, complete |-> done] ELSE ms[x]]

\* shutil.rmtree(d) succeeded
rm_dir(ms, d) == [x \in DOMAIN ms \ {d} |-> ms[x]]

\* folders.sort(key=mtime, reverse=True), autotrain.py line 95
RECURSIVE sort_desc(_, _)
sort_desc(S, ms) ==
    IF S = {} THEN << >>
    ELSE LET d == CHOOSE x \in S : \A y \in S : ms[y].mtime <= ms[x].mtime
         IN  <<d>> \o sort_desc(S \ {d}, ms)

\* folders[:-keep]: the slice taken from the wrong end
drop_newest(keep, sq) == SubSeq(sq, 1, IF Len(sq) > keep THEN Len(sq) - keep ELSE 0)

\* folders[keep:], autotrain.py line 96
drop(keep, sq) == SubSeq(sq, keep + 1, Len(sq))

\* ---- run_train, autotrain.py lines 63-78.  `out` is what train.py printed:
\* whether the line "Saved new model to: <path>" is in it, and the path.
Raise == <<"raise">>
\* run_train without the test of line 76
run_train_unchecked(out) == out.path
run_train(out) == IF ~out.marker THEN Raise ELSE out.path

\* reload_api without the except clause: a failed POST leaves main
reload_api_raising(ok) == IF ok THEN "prune" ELSE "train_failed"

\* reload_api, autotrain.py lines 80-88: every exception of the POST is
\* caught and logged, so main goes on to pruning whether or not it succeeded.
reload_api(ok) == "prune"

\* state.update(...) with the count read again at the end of the run
updated_state_reread(st, tot, t, path) ==
    [k \in DOMAIN st \cup {"last_count", "last_time", "last_model"} |->
        CASE k = "last_count" -> read_count(fbFile)
          [] k = "last_time" -> t
          [] k = "last_model" -> path
          [] OTHER -> st[k]]

\* state.update(...), autotrain.py lines 122-128
updated_state(st, tot, t, path) ==
    [k \in DOMAIN st \cup {"last_count", "last_time", "last_model"} |->
        CASE k = "last_count" -> tot
          [] k = "last_time" -> t
          [] k = "last_model" -> path
          [] OTHER -> st[k]]

\* ------------------------------------------------- autotrain.py: main()
Terminal == {"idle", "train_failed", "prune_failed"}

\* A scheduler invocation starts: the module is loaded (lines 24-27 read the
\* environment) and main reads the feedback count, line 104.
Start(p) ==
    /\ pc[p] \in Terminal
    /\ \E f \in BOOLEAN : force' = [force EXCEPT ![p] = f]
    /\ total' = [total EXCEPT ![p] = read_count(fbFile)]
    /\ pc' = [pc EXCEPT ![p] = "load"]
    /\ UNCHANGED <<state, out_dir, base, model_path, folders, todo>>
    /\ UNCHANGED <<fbVars, now, serverVars, fsVars, fnVars>>

\* The invocation ends, by a return or by an exception leaving main: its
\* locals are gone.
Exit(p, how) ==
    /\ pc' = [pc EXCEPT ![p] = how]
    /\ force' = [force EXCEPT ![p] = FALSE]
    /\ total' = [total EXCEPT ![p] = 0]
    /\ state' = [state EXCEPT ![p] = NoFile]
    /\ out_dir' = [out_dir EXCEPT ![p] = None]
    /\ base' = [base EXCEPT ![p] = None]
    /\ model_path' = [model_path EXCEPT ![p] = None]
    /\ folders' = [folders EXCEPT ![p] = {}]
    /\ todo' = [todo EXCEPT ![p] = << >>]
    /\ reload_ok' = [reload_ok EXCEPT ![p] = "none"]

\* main, lines 105-110, and run_train, lines 65-71: load the state and
\* decide; when the criteria are met, launch train.py, whose OUT_DIR
\* (train.py line 40) is named after the time of the launch and whose base
\* model is CURRENT_MODEL (train.py lines 37, 151-152).
Load(p) ==
    /\ pc[p] = "load"
    /\ IF should_train(total[p], load_state, now, force[p])
       THEN /\ clock_s < MaxClock
            /\ state' = [state EXCEPT ![p] = load_state]
            /\ clock_s' = clock_s + 1
            /\ out_dir' = [out_dir EXCEPT ![p] = Dir(clock_s + 1)]
            /\ base' = [base EXCEPT ![p] = CURRENT_MODEL]
            /\ pc' = [pc EXCEPT ![p] = "training"]
            /\ UNCHANGED <<force, total, model_path, folders, todo, reload_ok>>
       ELSE /\ Exit(p, "idle")
            /\ UNCHANGED clock_s
    /\ UNCHANGED <<fbVars, now, srvCore, state_file, models, fnVars>>

\* What train.py leaves behind and prints: it saves the checkpoint and prints
\* the marker (train.py lines 164-198), or it dies before the marker, with
\* or without having created OUT_DIR (line 164).
TrainOutcomes(p) ==
    {[marker |-> TRUE, path |-> out_dir[p], mkdir |-> TRUE],
     [marker |-> FALSE, path |-> << >>, mkdir |-> TRUE],
     [marker |-> FALSE, path |-> << >>, mkdir |-> FALSE]}

\* run_train, lines 72-78: train.py has ended; its output is searched for the
\* marker.  An exception leaves main (lines 113 ff. are not executed).
TrainEnd(p) ==
    /\ pc[p] = "training"
    /\ clock_s < MaxClock
    /\ \E out \in TrainOutcomes(p) :
          /\ models' = IF out.mkdir
                       THEN put_dir(models, out_dir[p], clock_s + 1, out.marker)
                       ELSE models
          /\ IF run_train(out) = Raise
             THEN Exit(p, "train_failed")
             ELSE /\ pc' = [pc EXCEPT ![p] = "reload"]
                  /\ model_path' = [model_path EXCEPT ![p] = run_train(out)]
                  /\ UNCHANGED <<force, total, state, out_dir, base, folders, todo, reload_ok>>
    /\ clock_s' = clock_s + 1
    /\ UNCHANGED <<fbVars, now, srvCore, state_file, fnVars>>

\* reload_api, lines 82-88, when the POST raises without reaching the
\* handler (the server is down or refuses the connection)
ReloadUnreachable(p) ==
    /\ pc[p] = "reload"
    /\ pc' = [pc EXCEPT ![p] = reload_api(FALSE)]
    /\ reload_ok' = [reload_ok EXCEPT ![p] = "failed"]
    /\ UNCHANGED <<force, total, state, out_dir, base, model_path, folders, todo>>
    /\ UNCHANGED <<fbVars, now, srvCore, fsVars, fnVars>>

\* reload_api, line 83: the POST reaches app.py's /reload
ReloadCall(p) ==
    /\ pc[p] = "reload"
    /\ reload_begin(p, model_path[p])
    /\ pc' = [pc EXCEPT ![p] = "reload_wait"]
    /\ UNCHANGED <<force, total, state, out_dir, base, model_path, folders, todo>>
    /\ UNCHANGED <<fbVars, now, fsVars, fnVars>>

\* reload_api, lines 84-88: the response arrives, 200 or 500
ReloadReturn(p) ==
    /\ pc[p] = "reload_wait"
    /\ \E built \in build_pipeline(inflight[p]) :
          /\ reload_end(p, built)
          /\ pc' = [pc EXCEPT ![p] = reload_api(built # NoEngine)]
    /\ UNCHANGED <<force, total, state, out_dir, base, model_path, folders, todo>>
    /\ UNCHANGED <<fbVars, now, fsVars, fnVars>>

\* prune_old_models, lines 92-94: list the directories of MODELS_DIR
PruneList(p) ==
    /\ pc[p] = "prune"
    /\ folders' = [folders EXCEPT ![p] = DOMAIN models]
    /\ pc' = [pc EXCEPT ![p] = "prune_sort"]
    /\ UNCHANGED <<force, total, state, out_dir, base, model_path, todo>>
    /\ UNCHANGED <<fbVars, now, serverVars, fsVars, fnVars>>

\* prune_old_models, lines 95-96: sort by st_mtime, newest first, and take
\* folders[keep:].  p.stat() raises when a listed directory is gone by now.
\* With nothing to visit the function returns to main.
PruneSort(p, keep) ==
    /\ pc[p] = "prune_sort"
    /\ IF folders[p] \subseteq DOMAIN models
       THEN /\ todo' = [todo EXCEPT ![p] = drop(keep, sort_desc(folders[p], models))]
            /\ pc' = [pc EXCEPT ![p] =
                        IF drop(keep, sort_desc(folders[p], models)) = << >>
                        THEN "save" ELSE "pruning"]
            /\ UNCHANGED <<force, total, state, out_dir, base, model_path, folders, reload_ok>>
       ELSE Exit(p, "prune_failed")
    /\ UNCHANGED <<fbVars, now, srvCore, fsVars, fnVars>>

\* prune_old_models, lines 96-101: one turn of the loop.  rmtree removes the
\* directory, or raises (the directory is gone already, or cannot be
\* removed) and the loop goes on; after the last turn the function returns.
prune_step(p, removed) ==
    /\ pc[p] = "pruning"
    /\ todo[p] # << >>
    /\ models' = IF removed /\ Head(todo[p]) \in DOMAIN models
                 THEN rm_dir(models, Head(todo[p]))
                 ELSE models
    /\ todo' = [todo EXCEPT ![p] = Tail(@)]
    /\ pc' = [pc EXCEPT ![p] = IF Tail(todo[p]) = << >> THEN "save" ELSE "pruning"]
    /\ UNCHANGED <<force, total, state, out_dir, base, model_path, folders>>
    /\ UNCHANGED <<fbVars, now, serverVars, state_file, clock_s>>

PruneStep(p) ==
    /\ \E removed \in BOOLEAN : prune_step(p, removed)
    /\ UNCHANGED fnVars

\* main, lines 122-130: update and save the state
SaveState(p) ==
    /\ pc[p] = "save"
    /\ state_file' = updated_state(state[p], total[p], now, model_path[p])
    /\ Exit(p, "idle")
    /\ UNCHANGED <<fbVars, now, srvCore, models, clock_s, fnVars>>

\* ------------------------------------------------------- the environment
\* The body of the n-th distinct feedback a user sends
FreshFb(n) ==
    [url |-> None, text |-> <<ToString(n)>>, predicted_label |-> "SARCASM",
     score |-> 90, user_label |-> "NOT_SARCASM"]

\* A user sends feedback on a new sentence to the serving process
FeedbackArrives ==
    /\ Len(fbFile) < MaxLines
    /\ feedback(FreshFb(Len(fbFile) + 1))
    /\ UNCHANGED <<submitted, now, serverVars, fsVars, procVars, fnVars>>

\* --------------------------------------------------------- initial states
InitServer ==
    /\ MODEL_PATH = HubModel
    /\ clf \in build_pipeline(HubModel) \ {NoEngine}
    /\ inflight = [c \in Callers |-> None]
    /\ req_count = 0
    /\ served = NoEngine
    /\ reload_ok = [c \in Callers |-> "none"]

InitProcs ==
    /\ pc = [p \in Procs |-> "idle"]
    /\ force = [p \in Procs |-> FALSE]
    /\ total = [p \in Procs |-> 0]
    /\ state = [p \in Procs |-> NoFile]
    /\ out_dir = [p \in Procs |-> None]
    /\ base = [p \in Procs |-> None]
    /\ model_path = [p \in Procs |-> None]
    /\ folders = [p \in Procs |-> {}]
    /\ todo = [p \in Procs |-> << >>]

InitFn == fn_in = << >> /\ fn_out = << >>

\* A fresh installation: app.py has touched an empty feedback file, no run
\* state and no checkpoint directory exist yet.
InitFresh ==
    /\ fbFile = << >>
    /\ submitted = << >>
    /\ state_file = NoFile
    /\ models = NoModels
    /\ clock_s = 0

\* An established deployment.  The operator has run train.py by hand
\* KEEP_LAST times and switched the API to the last checkpoint (the steps
\* train.py prints at lines 200-207), so no run state was ever saved; the
\* feedback log has grown to one line short of MIN_TOTAL.
OldDir(k) == Dir(2 * k - 1)
InitEstablished ==
    /\ fbFile = [k \in 1..(MIN_TOTAL(FALSE) - 1) |->
                    record(FreshFb(k), COOLDOWN(FALSE))]
    /\ submitted = << >>
    /\ state_file = NoFile
    /\ models = [d \in {OldDir(k) : k \in 1..KEEP_LAST} |->
                    [mtime |-> d[2] + 1, complete |-> TRUE]]
    /\ clock_s = 2 * KEEP_LAST
    /\ MODEL_PATH = OldDir(KEEP_LAST)
    /\ clf = Engine(OldDir(KEEP_LAST))
    /\ inflight = [c \in Callers |-> None]
    /\ req_count = 0
    /\ served = NoEngine
    /\ reload_ok = [c \in Callers |-> "none"]

\* ------------------------------ Spec: the cron job beside the serving process
Init ==
    /\ InitEstablished
    /\ InitProcs /\ InitFn
    /\ now = COOLDOWN(FALSE)

Next ==
    \/ FeedbackArrives
    \/ \E p \in Procs :
          \/ Start(p)
          \/ Load(p)
          \/ TrainEnd(p)
          \/ ReloadUnreachable(p)
          \/ ReloadCall(p)
          \/ ReloadReturn(p)
          \/ PruneList(p)
          \/ PruneSort(p, KEEP_LAST)
          \/ PruneStep(p)
          \/ SaveState(p)

Spec == Init /\ [][Next]_vars

\* the steps of main between the decision to train and the return
Running ==
    {"training", "reload", "reload_wait", "prune", "prune_sort", "pruning", "save"}

\* C3: a run whose training output has no completion marker ends there: that
\* step leaves the run state file and the serving process as they were and
\* removes no checkpoint, the invocation takes no further step (only a new
\* invocation follows), and no step of the run up to there writes the state
\* file; a run goes on to the reload only with a saved checkpoint whose path
\* it has parsed.
C3_Step(p) ==
    /\ pc[p] = "training" => pc'[p] \in {"training", "reload", "train_failed"}
    /\ (pc[p] \in {"load", "training"} /\ pc'[p] # pc[p]) => state_file' = state_file
    /\ (pc[p] = "training" /\ pc'[p] = "train_failed") =>
          /\ srvCore' = srvCore
          /\ \A d \in DOMAIN models : d \in DOMAIN models' /\ models'[d] = models[d]
          /\ out_dir[p] \in DOMAIN models' => ~models'[out_dir[p]].complete
    /\ (pc[p] = "training" /\ pc'[p] = "reload") =>
          /\ out_dir[p] \in DOMAIN models'
          /\ models'[out_dir[p]].complete
          /\ model_path'[p] = out_dir[p]
    /\ pc[p] = "train_failed" => pc'[p] \in {"train_failed", "load"}

C3_FailedTrainingAborts == [][\A p \in Procs : C3_Step(p)]_vars

\* C3 witness: a run has failed at the training step while a run state saved
\* by an earlier run exists
C3_Witness ==
    \E p \in Procs : pc[p] = "train_failed" /\ state_file # NoFile

\* C4: the total of a run is the count read at its start and stays that
\* through the run; the save at the end of a successful run writes it as
\* last_count, and writes as last_model the checkpoint path of this run.
C4_Step(p) ==
    /\ (pc[p] \in Terminal /\ pc'[p] = "load") => total'[p] = read_count(fbFile)
    /\ (pc[p] \notin Terminal /\ pc'[p] \notin Terminal) => total'[p] = total[p]
    /\ (pc[p] = "save" /\ pc'[p] = "idle") =>
          /\ state_file' # NoFile
          /\ state_file'.last_count = total[p]
          /\ state_file'.last_model = model_path[p]
          /\ model_path[p] = out_dir[p]

C4_SavedCountIsStartCount == [][\A p \in Procs : C4_Step(p)]_vars

\* C4 witness: a run is about to save while the feedback log has grown since
\* its start
C4_Witness ==
    \E p \in Procs : pc[p] = "save" /\ total[p] < read_count(fbFile)

\* C5: a failed reload (the server unreachable, or the checkpoint rejected)
\* takes the run to pruning, with every checkpoint directory and the parsed
\* path as they were; the save of such a run writes the count, the time and
\* the checkpoint path, after which the default criteria are not met for the
\* same count at the same time.
C5_Step(p) ==
    /\ (pc[p] \in {"reload", "reload_wait"} /\ pc'[p] # pc[p]
          /\ reload_ok'[p] = "failed") =>
          /\ pc'[p] = "prune"
          /\ models' = models
          /\ model_path'[p] = model_path[p]
          /\ state_file' = state_file
    /\ (pc[p] = "save" /\ pc'[p] # "save" /\ reload_ok[p] = "failed") =>
          /\ pc'[p] = "idle"
          /\ state_file' # NoFile
          /\ state_file'.last_count = total[p]
          /\ state_file'.last_time = now
          /\ state_file'.last_model = model_path[p]
          /\ ~should_train(total[p], state_file', now, FALSE)

C5_ReloadFailureNotFatal == [][\A p \in Procs : C5_Step(p)]_vars

\* C5 witness: a run whose reload failed has pruned and is about to save,
\* its checkpoint still on disk
C5_Witness ==
    \E p \in Procs :
        /\ pc[p] = "save"
        /\ reload_ok[p] = "failed"
        /\ model_path[p] \in DOMAIN models

\* C9: no two invocations are between the decision to train and the return
\* at the same time.
C9_SingleFlight ==
    \A p, q \in Procs : (pc[p] \in Running /\ pc[q] \in Running) => p = q

\* the saved last_count, 0 while no state was saved (load_state's default)
C10_Persisted(f) == IF f = NoFile THEN 0 ELSE f.last_count

\* C10: no step lowers the persisted last_count.
C10_LastCountMonotone ==
    [][C10_Persisted(state_file') >= C10_Persisted(state_file)]_vars

\* C11: the train.py a run launches fine-tunes from the checkpoint the
\* serving process has live at that time (so, after a run has promoted P and
\* P is live, the next run starts from P).
C11_Step(p) ==
    (pc[p] = "load" /\ pc'[p] = "training") => base'[p] = clf.path

C11_BaseIsLive == [][\A p \in Procs : C11_Step(p)]_vars

\* ------------------------------------------------ SpecFeedback: /feedback
InitFeedback ==
    /\ InitFresh /\ InitServer /\ InitProcs /\ InitFn
    /\ now = 0

SubmitFeedback ==
    /\ Len(submitted) < MaxSubmissions
    /\ \E fb \in FeedbackIn :
          /\ feedback(fb)
          /\ submitted' = Append(submitted, fb)
    /\ UNCHANGED <<now, serverVars, fsVars, procVars, fnVars>>

NextFeedback == SubmitFeedback

SpecFeedback == InitFeedback /\ [][NextFeedback]_vars

\* The (url-or-empty, trimmed text) pair of a request body or of a record
pair(x) == <<url_or_empty(x.url), strip(x.text)>>

\* C1: every (url-or-empty, trimmed text) pair that was submitted has
\* exactly one record in the feedback log, and that record is the one built
\* from the first submission of the pair.
C1_FirstOfEachPairPersisted ==
    \A i \in DOMAIN submitted :
        (\A j \in 1..(i - 1) : pair(submitted[j]) # pair(submitted[i])) =>
            /\ Cardinality({k \in DOMAIN fbFile :
                              pair(fbFile[k]) = pair(submitted[i])}) = 1
            /\ \E k \in DOMAIN fbFile : fbFile[k] = record(submitted[i], now)

\* C1, the part that holds: no two lines of the log carry the same pair
C1_AtMostOnePerPair ==
    \A k1, k2 \in DOMAIN fbFile :
        pair(fbFile[k1]) = pair(fbFile[k2]) => k1 = k2

\* ------------------------------------- SpecServe: /reload beside /predict
\* The paths a client posts to /reload: none, the empty string, the hub id,
\* a path that holds no checkpoint, and two checkpoint directories.
ClientPaths == {None, << >>, HubModel, BadPath, OldDir(1), OldDir(KEEP_LAST)}

ClientReload(c) ==
    /\ \E path \in ClientPaths : reload_begin(c, path)
    /\ UNCHANGED <<fbVars, now, fsVars, procVars, fnVars>>

ClientReloadReturn(c) ==
    /\ \E built \in build_pipeline(inflight[c]) : reload_end(c, built)
    /\ UNCHANGED <<fbVars, now, fsVars, procVars, fnVars>>

Predict ==
    /\ predict
    /\ UNCHANGED <<fbVars, now, fsVars, procVars, fnVars>>

NextServe ==
    \/ \E c \in Clients : ClientReload(c) \/ ClientReloadReturn(c)
    \/ Predict

SpecServe == Init /\ [][NextServe]_vars

\* C6: the server always holds a fully built pipeline, every /predict was
\* served by a fully built one, and a /reload whose build_pipeline fails
\* answers with an error and leaves the pipeline that was active in place.
C6_Usable ==
    /\ clf # NoEngine /\ clf.ready
    /\ req_count > 0 => served # NoEngine /\ served.ready

C6_FailureKeeps ==
    \A c \in Callers :
        (inflight[c] # None /\ inflight'[c] = None) =>
            /\ reload_ok'[c] \in {"ok", "failed"}
            /\ (~Loadable(inflight[c])) => (reload_ok'[c] = "failed")
            /\ (reload_ok'[c] = "failed") => (clf' = clf)
            /\ (reload_ok'[c] = "ok") => (clf' = Engine(inflight[c]))

C6_ReloadFailureKeepsEngine == []C6_Usable /\ [][C6_FailureKeeps]_vars

\* C6 witness: a reload of a path that holds no checkpoint has failed, the
\* reported path is that path, and a /predict has been served since by the
\* pipeline built before.
C6_Witness ==
    \E c \in Clients :
        /\ reload_ok[c] = "failed"
        /\ MODEL_PATH = BadPath
        /\ req_count > 0
        /\ served = Engine(OldDir(KEEP_LAST))
        /\ clf = served

\* C12: whenever no /reload call is inside build_pipeline, the path the
\* server reports as active (MODEL_PATH) is the path the pipeline serving
\* /predict was built from; so a /reload that failed has left the reported
\* path as it was.
C12_ReportedIsServing ==
    (\A c \in Callers : inflight[c] = None) => MODEL_PATH = clf.path

\* ------------------------------------------- SpecShould: should_train
\* The run states should_train is given: any of the two keys may be missing
StateDicts ==
    [last_count : 0..MaxCount, last_time : 0..MaxHours]
        \cup [last_count : 0..MaxCount] \cup [last_time : 0..MaxHours]

InitShould ==
    /\ InitEstablished /\ InitProcs
    /\ now \in {COOLDOWN(FALSE), MaxHours}
    /\ fn_in \in [total : 0..MaxCount, state : StateDicts, force : BOOLEAN]
    /\ fn_out = << >>

ApplyShouldTrain ==
    /\ fn_out = << >>
    /\ fn_out' = <<should_train(fn_in.total, fn_in.state, now, fn_in.force)>>
    /\ UNCHANGED <<fn_in, fbVars, now, serverVars, fsVars, procVars>>

NextShould == ApplyShouldTrain

SpecShould == InitShould /\ [][NextShould]_vars

PruneDir(m, flip) == IF flip THEN Dir(MaxDirs + 1 - m) ELSE Dir(m)

InitPrune ==
    /\ fbFile = << >> /\ submitted = << >>
    /\ state_file = NoFile
    /\ clock_s = MaxDirs
    /\ InitServer /\ InitProcs
    /\ now = COOLDOWN(FALSE)
    /\ \E M \in SUBSET (1..MaxDirs) : \E flip \in BOOLEAN :
          models = [d \in {PruneDir(m, flip) : m \in M} |->
                       [mtime |-> IF flip THEN MaxDirs + 1 - d[2] ELSE d[2],
                        complete |-> TRUE]]
    /\ \E k \in 0..MaxDirs : fn_in = [keep |-> k, models |-> models]
    /\ fn_out = {}

\* prune_old_models(keep) is entered
PruneCall(p) ==
    /\ pc[p] = "idle"
    /\ pc' = [pc EXCEPT ![p] = "prune"]
    /\ UNCHANGED <<force, total, state, out_dir, base, model_path, folders, todo>>
    /\ UNCHANGED <<fbVars, now, serverVars, fsVars, fnVars>>

\* a turn of the loop; fn_out collects the directories rmtree failed on
PruneStepLogged(p) ==
    /\ \E removed \in BOOLEAN :
          /\ prune_step(p, removed)
          /\ fn_out' = IF removed THEN fn_out ELSE fn_out \cup {Head(todo[p])}
    /\ UNCHANGED fn_in

NextPrune ==
    \/ PruneCall("cronA")
    \/ PruneList("cronA")
    \/ PruneSort("cronA", fn_in.keep)
    \/ PruneStepLogged("cronA")

SpecPrune == InitPrune /\ [][NextPrune]_vars

\* the directories of ms that at least k directories of ms are newer than
Oldest(ms, k) ==
    {d \in DOMAIN ms :
        Cardinality({e \in DOMAIN ms : ms[e].mtime > ms[d].mtime}) >= k}

\* C7: with N directories of distinct mtimes, prune_old_models(K) visits
\* exactly the max(0, N - K) oldest, removes each of them whose deletion
\* does not fail, and leaves the K newest as they were.
C7_PruneOldest ==
    pc["cronA"] = "save" =>
        LET m0 == fn_in.models
            old == Oldest(m0, fn_in.keep)
            N == Cardinality(DOMAIN m0)
        IN  /\ Cardinality(old) = IF N > fn_in.keep THEN N - fn_in.keep ELSE 0
            /\ fn_out \subseteq old
            /\ DOMAIN models = DOMAIN m0 \ (old \ fn_out)
            /\ \A d \in DOMAIN models : models[d] = m0[d]
            /\ (N = 7 /\ fn_in.keep = KEEP_LAST /\ fn_out = {}) =>
                   Cardinality(DOMAIN models) = 5

\* C7 witness: of 7 directories and KEEP_LAST = 5, the deletion of the
\* oldest failed and the second oldest was still removed
C7_Witness ==
    /\ pc["cronA"] = "save"
    /\ Cardinality(DOMAIN fn_in.models) = 7
    /\ fn_in.keep = KEEP_LAST
    /\ Cardinality(fn_out) = 1
    /\ Cardinality(DOMAIN models) = 6
    /\ \A d \in fn_out : \A e \in DOMAIN fn_in.models :
          fn_in.models[d].mtime <= fn_in.models[e].mtime

\* ----------------------------------- train.py: build_training_rows
\* label2id, train.py line 43
label2id(l) == IF l = "SARCASM" THEN 1 ELSE 0

\* train.py lines 47-49; the band in hundredths
DISAGREE_DUP == 3
UNCERT_LO == 45
UNCERT_HI == 65
UNCERT_DUP == 2

\* p_sarcasm_from_row without the test of the predicted label
p_sarcasm_raw(r) == r.score

\* p_sarcasm_from_row, train.py lines 79-81; 1.0 is 100 hundredths
p_sarcasm_from_row(r) == IF r.pred = "SARCASM" THEN r.score ELSE 100 - r.score

\* [x] * n
times(x, n) == [i \in 1..n |-> x]

\* the body of the loop of build_training_rows, train.py lines 87-94: what
\* one feedback row appends to out
rows_of(r) ==
    LET y == label2id(r.user)
        item == [text |-> r.text, label |-> y]
    IN  <<item>> \o
        (IF r.user # r.pred
         THEN times(item, DISAGREE_DUP - 1)
         ELSE IF UNCERT_LO <= p_sarcasm_from_row(r)
                 /\ p_sarcasm_from_row(r) <= UNCERT_HI
              THEN times(item, UNCERT_DUP - 1)
              ELSE << >>)

\* build_training_rows, train.py lines 83-95
RECURSIVE build_training_rows(_)
build_training_rows(rows) ==
    IF rows = << >> THEN << >>
    ELSE rows_of(Head(rows)) \o build_training_rows(Tail(rows))

\* ------------------------------------------------------------- SpecBuild
\* The rows read_feedback returns (train.py lines 69-74).  The scores lie
\* on both sides of each end of the band, for either predicted label.
Scores == {34, 35, 44, 45, 55, 56, 65, 66, 90, 95}
FeedbackRows ==
    [text : {<<"t">>, <<"u">>}, user : LABELS, pred : LABELS, score : Scores]

RECURSIVE SeqsUpTo(_, _)
SeqsUpTo(S, n) ==
    IF n = 0 THEN {<< >>}
    ELSE SeqsUpTo(S, n - 1)
         \cup {Append(sq, x) : sq \in {q \in SeqsUpTo(S, n - 1) : Len(q) = n - 1},
                               x \in S}

InitBuild ==
    /\ InitEstablished /\ InitProcs
    /\ now = COOLDOWN(FALSE)
    /\ fn_in \in SeqsUpTo(FeedbackRows, MaxRows)
    /\ fn_out = << >>

ApplyBuild ==
    /\ fn_out = << >>
    /\ fn_out' = <<build_training_rows(fn_in)>>
    /\ UNCHANGED <<fn_in, fbVars, now, serverVars, fsVars, procVars>>

NextBuild == ApplyBuild

SpecBuild == InitBuild /\ [][NextBuild]_vars

\* the number of weighted rows the claim gives a feedback row
C8_Count(r) ==
    IF r.user # r.pred THEN 3
    ELSE IF (IF r.pred = "SARCASM" THEN r.score ELSE 100 - r.score) \in 45..65
         THEN 2
         ELSE 1

RECURSIVE C8_Sum(_, _)
C8_Sum(rows, n) == IF n = 0 THEN 0 ELSE C8_Sum(rows, n - 1) + C8_Count(rows[n])

\* C8: build_training_rows emits, for each feedback row in turn, 3 rows when
\* the user and the model disagree, 2 when they agree and p_sarcasm lies in
\* [0.45, 0.65], 1 otherwise, every one carrying the row's text and the
\* user's label; the length of the list is the sum of these counts.
C8_Weights ==
    fn_out # << >> =>
        LET out == fn_out[1]
        IN  /\ Len(out) = C8_Sum(fn_in, Len(fn_in))
            /\ \A i \in DOMAIN fn_in :
                  \A j \in (C8_Sum(fn_in, i - 1) + 1)..C8_Sum(fn_in, i) :
                      /\ j \in DOMAIN out
                      /\ out[j].text = fn_in[i].text
                      /\ out[j].label = (IF fn_in[i].user = "SARCASM" THEN 1 ELSE 0)

\* C8 witness: a disagreement (predicted NOT_SARCASM with 0.9, the user says
\* SARCASM) followed by an uncertain agreement (SARCASM with 0.55) has given
\* 3 + 2 rows
C8_Witness ==
    /\ fn_in = <<[text |-> <<"t">>, user |-> "SARCASM", pred |-> "NOT_SARCASM",
                  score |-> 90],
                 [text |-> <<"u">>, user |-> "SARCASM", pred |-> "SARCASM",
                  score |-> 55]>>
    /\ fn_out # << >>
    /\ Len(fn_out[1]) = 5
    /\ \A j \in 1..3 : fn_out[1][j] = [text |-> <<"t">>, label |-> 1]

\* ------------------------- SpecPromote: one cron job, run after run
\* A deployment that has not trained yet: the serving process runs the hub
\* model (app.py line 21), MODELS_DIR is empty, no run state is saved, and
\* the feedback log has reached MIN_TOTAL lines.
InitPromote ==
    /\ fbFile = [k \in 1..MIN_TOTAL(FALSE) |->
                    record(FreshFb(k), COOLDOWN(FALSE))]
    /\ submitted = << >>
    /\ state_file = NoFile
    /\ models = NoModels
    /\ clock_s = 0
    /\ InitServer /\ InitProcs /\ InitFn
    /\ now = COOLDOWN(FALSE)

\* a day passes between two invocations
Tick ==
    /\ pc["cronA"] \in Terminal
    /\ now < COOLDOWN(FALSE) * (1 + MaxTicks)
    /\ now' = now + COOLDOWN(FALSE)
    /\ UNCHANGED <<fbVars, serverVars, fsVars, procVars, fnVars>>

\* rmtree succeeds on the directory prune_old_models visits
PruneStepDone(p) ==
    /\ prune_step(p, TRUE)
    /\ UNCHANGED fnVars

\* cron starts autotrain.py only after the previous invocation has ended
NextPromote ==
    \/ Tick
    \/ Start("cronA")
    \/ Load("cronA")
    \/ TrainEnd("cronA")
    \/ ReloadUnreachable("cronA")
    \/ ReloadCall("cronA")
    \/ ReloadReturn("cronA")
    \/ PruneList("cronA")
    \/ PruneSort("cronA", KEEP_LAST)
    \/ PruneStepDone("cronA")
    \/ SaveState("cronA")

SpecPromote == InitPromote /\ [][NextPromote]_vars

\* C13: when the pipeline serving /predict was built from a directory under
\* MODELS_DIR, that directory exists (pruning has not removed it); and the
\* checkpoint of a run that has pruned and is about to save exists.
C13_LiveCheckpointKept ==
    /\ clf.path[1] = "models" => clf.path \in DOMAIN models
    /\ \A p \in Procs : pc[p] = "save" => model_path[p] \in DOMAIN models

====
